---- MODULE Spec2Model ----
(***************************************************************************)
(* html2vimdoc (src/html2vimdoc-ng.py): the simplified parse tree, the two *)
(* passes over it (shift_headings, find_references) and the renderer.      *)
(*                                                                         *)
(* A string is a sequence of one-character strings.  A tree is a function  *)
(* from node identifiers to node records; node 1 is the root and a node's  *)
(* "contents" is the sequence of the identifiers of its children.          *)
(***************************************************************************)
EXTENDS Integers, Sequences, FiniteSets, TLC

VARIABLES
    html,        \* the BeautifulSoup tree handed to simplify_tree
    tree,        \* the simplified parse tree (<<>> before simplify_tree)
    pc,          \* position in html2vimdoc
    references,  \* by_reference, the list find_references returns
    output,      \* the text produced by the last render
    error,       \* the exception that ended the run ("" when none)
    level,       \* the level argument of the outermost render call
    shifts       \* number of shift_headings passes applied to tree

vars == <<html, tree, pc, references, output, error, level, shifts>>

(***************************************************************************)
(* Program constants.                                                      *)
(***************************************************************************)
TEXT_WIDTH == 79
SHIFT_WIDTH == 2

(***************************************************************************)
(* Bounds of the model.                                                    *)
(***************************************************************************)
MaxNodes == 4     \* nodes of a document of the pipeline specifications
MaxLevel == 40    \* largest level a paragraph or heading is rendered at
MaxWords == 2     \* words of a paragraph or heading text
MaxItems == 2     \* items of a rendered list
MaxBlocks == 3    \* children handed to join_blocks
MaxShifts == 2    \* shift_headings passes in SpecShift

(***************************************************************************)
(* Strings.                                                                *)
(***************************************************************************)
Rep(c, n) == [i \in 1..n |-> c]

RECURSIVE Flatten(_)
Flatten(ss) == IF ss = <<>> THEN <<>> ELSE Head(ss) \o Flatten(Tail(ss))

\* str.isspace() on one character / str.isspace() / "sub in s"
IsWs(c) == c \in {" ", "\n", "\t"}
isspace(s) == s # <<>> /\ \A i \in 1..Len(s) : IsWs(s[i])
Contains(s, sub) ==
    \E i \in 1..(Len(s) - Len(sub) + 1) : SubSeq(s, i, i + Len(sub) - 1) = sub

\* "%i" % n for n >= 0
Digit(d) == <<"0", "1", "2", "3", "4", "5", "6", "7", "8", "9">>[d + 1]
RECURSIVE ToDec(_)
ToDec(n) == IF n < 10 THEN <<Digit(n)>> ELSE ToDec(n \div 10) \o <<Digit(n % 10)>>

\* the ascending sequence of a finite set of integers
RECURSIVE SortedSeq(_)
SortedSeq(S) ==
    IF S = {} THEN <<>>
    ELSE LET m == CHOOSE x \in S : \A y \in S : x <= y
         IN  <<m>> \o SortedSeq(S \ {m})

(***************************************************************************)
(* urllib.unquote: every "%XY" with X, Y hexadecimal digits is replaced by *)
(* the character with that code; any other "%" is kept.                    *)
(***************************************************************************)
HexDigits == <<"0", "1", "2", "3", "4", "5", "6", "7", "8", "9",
               "A", "B", "C", "D", "E", "F">>
HexLower == <<"0", "1", "2", "3", "4", "5", "6", "7", "8", "9",
              "a", "b", "c", "d", "e", "f">>
IsHex(c) == \E k \in 1..16 : HexDigits[k] = c \/ HexLower[k] = c
HexVal(c) == (CHOOSE k \in 1..16 : HexDigits[k] = c \/ HexLower[k] = c) - 1

\* chr(n) for the letters, the digits and the punctuation of URLs; every other
\* code yields a character that is none of these (outside the inputs drawn)
Upper == <<"A", "B", "C", "D", "E", "F", "G", "H", "I", "J", "K", "L", "M",
           "N", "O", "P", "Q", "R", "S", "T", "U", "V", "W", "X", "Y", "Z">>
Lower == <<"a", "b", "c", "d", "e", "f", "g", "h", "i", "j", "k", "l", "m",
           "n", "o", "p", "q", "r", "s", "t", "u", "v", "w", "x", "y", "z">>
Chr(n) ==
    CASE n \in 48..57 -> HexDigits[n - 47]
      [] n \in 65..90 -> Upper[n - 64]
      [] n \in 97..122 -> Lower[n - 96]
      [] n = 32 -> " "
      [] n = 35 -> "#"
      [] n = 37 -> "%"
      [] n = 45 -> "-"
      [] n = 46 -> "."
      [] n = 47 -> "/"
      [] n = 58 -> ":"
      [] n = 63 -> "?"
      [] OTHER -> "<chr>"

RECURSIVE unquote(_)
unquote(s) ==
    IF s = <<>> THEN <<>>
    ELSE IF s[1] = "%" /\ Len(s) >= 3 /\ IsHex(s[2]) /\ IsHex(s[3])
         THEN <<Chr(16 * HexVal(s[2]) + HexVal(s[3]))>> \o unquote(SubSeq(s, 4, Len(s)))
         ELSE <<s[1]>> \o unquote(Tail(s))

(***************************************************************************)
(* The BeautifulSoup tree.  A node is a NavigableString (name "#text",     *)
(* its string in text) or an element: its name, its child nodes, its href  *)
(* attribute (<<>> when the element has none, <<target>> otherwise) and,   *)
(* for <a> and <pre>, text = ''.join(findAll(text=True)).                  *)
(***************************************************************************)
HtmlNode(name, text, href) == [name |-> name, text |-> text, href |-> href]

\* children of node i under the parent map par (par[j] < j), in order
ChildrenOf(par, i) == SortedSeq({j \in DOMAIN par : par[j] = i})

\* elements whose parse never looks at child nodes are leaves of the model
LeafOnly(name) == name \in {"#text", "a", "pre"}

\* the document with root element rootname and nodes 2..n labelled by lab
MkDoc(rootname, par, lab) ==
    [i \in {1} \cup DOMAIN par |->
        IF i = 1
        THEN [name |-> rootname, text |-> <<>>, href |-> <<>>,
              contents |-> ChildrenOf(par, 1)]
        ELSE [name |-> lab[i].name, text |-> lab[i].text, href |-> lab[i].href,
              contents |-> ChildrenOf(par, i)]]

\* the forests over nodes 2..n: every node hangs under the root or under an
\* earlier element that can hold children
RECURSIVE Forests(_, _)
Forests(n, Labels) ==
    IF n = 1 THEN {[par |-> [j \in {} |-> 1], lab |-> [j \in {} |-> HtmlNode("", <<>>, <<>>)]]}
    ELSE UNION {{[par |-> (n :> q) @@ f.par, lab |-> (n :> l) @@ f.lab] :
                    q \in {1} \cup {i \in DOMAIN f.par : ~LeafOnly(f.lab[i].name)},
                    l \in Labels} :
                f \in Forests(n - 1, Labels)}

Docs(rootname, n, Labels) ==
    {MkDoc(rootname, f.par, f.lab) : f \in Forests(n, Labels)}

(***************************************************************************)
(* The simplified tree.  A node keeps the identifier of the HTML node it   *)
(* was mapped from.  The parse methods store the sequence object returned  *)
(* by simplify_children as the node's contents; every use of it iterates   *)
(* it (Node.__iter__), which yields that sequence's children, so contents  *)
(* is modelled as the sequence of the children's identifiers.              *)
(* reference is <<>> while the attribute is absent and <<r>> once set.     *)
(***************************************************************************)
SimpleNode(type, contents) ==
    [type |-> type, level |-> 0, ordered |-> FALSE, text |-> <<>>,
     target |-> <<>>, reference |-> <<>>, contents |-> contents]

BlockTypes == {"BlockLevelSequence", "Heading", "Paragraph", "PreformattedText",
               "List", "ListItem", "Table"}

\* name_to_type_mapping, filled by the html_element decorators
name_to_type_mapping ==
    [h1 |-> "Heading", h2 |-> "Heading", h3 |-> "Heading", h4 |-> "Heading",
     h5 |-> "Heading", h6 |-> "Heading", p |-> "Paragraph",
     pre |-> "PreformattedText", ul |-> "List", ol |-> "List",
     li |-> "ListItem", table |-> "Table", a |-> "HyperLink"]

\* int(html_node.name[1]) for the names h1..h6
HeadingLevel(name) ==
    CASE name = "h1" -> 1 [] name = "h2" -> 2 [] name = "h3" -> 3
      [] name = "h4" -> 4 [] name = "h5" -> 5 [] name = "h6" -> 6

RECURSIVE MergeAll(_)
MergeAll(fs) == IF fs = <<>> THEN <<>> ELSE Head(fs) @@ MergeAll(Tail(fs))

\* is_block_level over the nodes ids of the tree t
is_block_level(t, ids) == \E k \in 1..Len(ids) : t[ids[k]].type \in BlockTypes

RECURSIVE simplify_node(_, _)
RECURSIVE simplify_children(_, _)

\* [ok, nodes, contents, type]: the children simplified (nodes maps every node
\* below i to its simplified node) and the class of the sequence they form;
\* ok is FALSE when a parse below raised
simplify_children(h, i) ==
    LET ids == h[i].contents
        rs == [k \in 1..Len(ids) |-> simplify_node(h, ids[k])]
        nodes == MergeAll([k \in 1..Len(ids) |-> rs[k].nodes])
        ok == \A k \in 1..Len(ids) : rs[k].ok
    IN  [ok |-> ok, nodes |-> nodes, contents |-> ids,
         type |-> IF ok /\ is_block_level(nodes, ids)
                  THEN "BlockLevelSequence" ELSE "InlineSequence"]

\* HyperLink.parse: html_node['href'] raises KeyError without the attribute
HyperLinkParse(h, i) ==
    IF h[i].href = <<>>
    THEN [ok |-> FALSE, nodes |-> <<>>]
    ELSE [ok |-> TRUE,
          nodes |-> i :> [SimpleNode("HyperLink", <<>>) EXCEPT
                             !.text = h[i].text, !.target = h[i].href[1]]]

simplify_node(h, i) ==
    LET name == h[i].name IN
    IF name = "#text"
    THEN [ok |-> TRUE, nodes |-> i :> [SimpleNode("Text", <<>>) EXCEPT !.text = h[i].text]]
    ELSE IF name \in DOMAIN name_to_type_mapping
    THEN LET type == name_to_type_mapping[name] IN
         CASE type = "HyperLink" -> HyperLinkParse(h, i)
           [] type = "PreformattedText" ->
                [ok |-> TRUE,
                 nodes |-> i :> [SimpleNode(type, <<>>) EXCEPT !.text = h[i].text]]
           [] OTHER ->
                LET c == simplify_children(h, i)
                    n == SimpleNode(type, c.contents)
                IN  [ok |-> c.ok,
                     nodes |-> (i :> CASE type = "Heading" ->
                                            [n EXCEPT !.level = HeadingLevel(name)]
                                       [] type = "List" ->
                                            [n EXCEPT !.ordered = (name = "ol")]
                                       [] OTHER -> n) @@ c.nodes]
    ELSE LET c == simplify_children(h, i)
         IN  [ok |-> c.ok, nodes |-> (i :> SimpleNode(c.type, c.contents)) @@ c.nodes]

simplify_tree(h) == simplify_node(h, 1)

(***************************************************************************)
(* walk_tree: the nodes in reading order.  An entry is <<"node", i>> for   *)
(* node i or <<"str", i>> for the string that the contents property of a   *)
(* Text or PreformattedText node i yields.  A HyperLink has no contents.   *)
(***************************************************************************)
RECURSIVE walk_tree(_, _)
walk_tree(t, i) ==
    <<<<"node", i>>>> \o
    (IF t[i].type \in {"Text", "PreformattedText"}
     THEN <<<<"str", i>>>>
     ELSE Flatten([k \in 1..Len(t[i].contents) |-> walk_tree(t, t[i].contents[k])]))

IsA(t, entry, type) == entry[1] = "node" /\ t[entry[2]].type = type

(***************************************************************************)
(* shift_headings.  min_level is <<>> for None and <<m>> otherwise.        *)
(***************************************************************************)
RECURSIVE FindMinLevel(_, _, _)
FindMinLevel(t, walk, min_level) ==
    IF walk = <<>> THEN min_level
    ELSE LET node == Head(walk) IN
         FindMinLevel(t, Tail(walk),
            IF IsA(t, node, "Heading")
            THEN IF min_level = <<>> THEN <<t[node[2]].level>>
                 ELSE IF t[node[2]].level < min_level[1] THEN <<t[node[2]].level>>
                 ELSE min_level
            ELSE min_level)

\* the second loop: node.level -= to_subtract for every Heading of the walk
SubtractFromHeadings(t, walk, to_subtract) ==
    LET visited == {walk[k][2] : k \in {j \in 1..Len(walk) : walk[j][1] = "node"}}
    IN  [i \in DOMAIN t |->
            IF i \in visited /\ t[i].type = "Heading"
            THEN [t[i] EXCEPT !.level = @ - to_subtract] ELSE t[i]]

\* a faulty variant: subtracts min_level instead of min_level - 1
shift_headingsOffByOne(t) ==
    LET min_level == FindMinLevel(t, walk_tree(t, 1), <<>>)
    IN  IF min_level = <<>> THEN t
        ELSE IF min_level[1] > 1
             THEN SubtractFromHeadings(t, walk_tree(t, 1), min_level[1])
             ELSE t

\* a faulty variant: shifts by one level per pass
shift_headingsOneLevel(t) ==
    LET min_level == FindMinLevel(t, walk_tree(t, 1), <<>>)
    IN  IF min_level = <<>> THEN t
        ELSE IF min_level[1] > 1
             THEN SubtractFromHeadings(t, walk_tree(t, 1), 1)
             ELSE t

shift_headings(t) ==
    LET min_level == FindMinLevel(t, walk_tree(t, 1), <<>>)
    IN  IF min_level = <<>> THEN t
        ELSE IF min_level[1] > 1
             THEN SubtractFromHeadings(t, walk_tree(t, 1), min_level[1] - 1)
             ELSE t

(***************************************************************************)
(* find_references.  The loop state is the tree (node.reference), the     *)
(* by_target dictionary (its keys) and by_reference.                       *)
(***************************************************************************)
Reference(number, target) == [number |-> number, target |-> target]

\* a faulty variant: no "if target in by_target: continue"
FindStepNoDedup(st, node) ==
    LET t == st.tree
        target == unquote(t[node[2]].target)
    IN  IF ~IsA(t, node, "HyperLink") THEN st
        ELSE IF ~Contains(target, <<":", "/", "/">>) \/ target = t[node[2]].text THEN st
        ELSE LET r == Reference(Len(st.by_reference) + 1, target)
             IN  [tree |-> [t EXCEPT ![node[2]].reference = <<r>>],
                  by_target |-> st.by_target \cup {target},
                  by_reference |-> Append(st.by_reference, r)]

\* one iteration of the loop over walk_tree(root)
FindStep(st, node) ==
    LET t == st.tree
        target == unquote(t[node[2]].target)
    IN  IF ~IsA(t, node, "HyperLink") THEN st
        ELSE IF target \in st.by_target THEN st
        ELSE IF ~Contains(target, <<":", "/", "/">>) \/ target = t[node[2]].text THEN st
        ELSE LET r == Reference(Len(st.by_reference) + 1, target)
             IN  [tree |-> [t EXCEPT ![node[2]].reference = <<r>>],
                  by_target |-> st.by_target \cup {target},
                  by_reference |-> Append(st.by_reference, r)]

RECURSIVE FindLoop(_, _)
FindLoop(st, walk) ==
    IF walk = <<>> THEN st ELSE FindLoop(FindStep(st, Head(walk)), Tail(walk))

\* [tree, by_target, by_reference] when the pass returns
find_references(t) ==
    FindLoop([tree |-> t, by_target |-> {}, by_reference |-> <<>>], walk_tree(t, 1))

(***************************************************************************)
(* String helpers of the renderer.                                         *)
(***************************************************************************)
\* s.strip() == ''
IsBlank(s) == \A i \in 1..Len(s) : IsWs(s[i])

\* s.lstrip()
lstrip(s) ==
    LET rest == {i \in 1..Len(s) : ~IsWs(s[i])}
    IN  IF rest = {} THEN <<>>
        ELSE SubSeq(s, CHOOSE i \in rest : \A j \in rest : i <= j, Len(s))

\* the maximal runs of whitespace and of non-whitespace characters of s, in
\* order: the chunks textwrap splits a text without hyphens into
Runs(s) ==
    LET st == SortedSeq({i \in 1..Len(s) : i = 1 \/ IsWs(s[i]) # IsWs(s[i - 1])})
    IN  [k \in 1..Len(st) |->
            SubSeq(s, st[k], IF k < Len(st) THEN st[k + 1] - 1 ELSE Len(s))]

\* s.split(): the runs of non-whitespace characters
split(s) == SelectSeq(Runs(s), LAMBDA r : ~IsWs(r[1]))

\* sep.join(parts)
RECURSIVE join(_, _)
join(sep, parts) ==
    IF parts = <<>> THEN <<>>
    ELSE IF Len(parts) = 1 THEN parts[1]
    ELSE parts[1] \o sep \o join(sep, Tail(parts))

\* compact: " ".join(text.split())
compact(text) == join(<<" ">>, split(text))

(***************************************************************************)
(* textwrap.wrap(text, width, initial_indent, subsequent_indent) with the  *)
(* defaults break_long_words and drop_whitespace: TextWrapper._wrap_chunks *)
(* over the chunks of the text.                                            *)
(***************************************************************************)
\* how many leading chunks fit on the current line
RECURSIVE Fit(_, _, _)
Fit(chunks, cur_len, width) ==
    IF chunks # <<>> /\ cur_len + Len(Head(chunks)) <= width
    THEN 1 + Fit(Tail(chunks), cur_len + Len(Head(chunks)), width)
    ELSE 0

RECURSIVE wrap_chunks(_, _, _, _, _)
wrap_chunks(chunks, lines, textwidth, initial_indent, subsequent_indent) ==
    IF chunks = <<>> THEN lines
    ELSE
    LET indent == IF lines # <<>> THEN subsequent_indent ELSE initial_indent
        width == textwidth - Len(indent)
        \* drop whitespace at the start of every line but the first
        c1 == IF IsBlank(Head(chunks)) /\ lines # <<>> THEN Tail(chunks) ELSE chunks
        k == Fit(c1, 0, width)
        cur1 == SubSeq(c1, 1, k)
        cur_len == Len(Flatten(cur1))
        c2 == SubSeq(c1, k + 1, Len(c1))
        \* _handle_long_word: the next chunk is longer than a whole line
        long == c2 # <<>> /\ Len(Head(c2)) > width
        space_left == IF width < 1 THEN 1 ELSE width - cur_len
        cur2 == IF long THEN Append(cur1, SubSeq(Head(c2), 1, space_left)) ELSE cur1
        c3 == IF long
              THEN <<SubSeq(Head(c2), space_left + 1, Len(Head(c2)))>> \o Tail(c2)
              ELSE c2
        cur3 == IF cur2 # <<>> /\ IsBlank(cur2[Len(cur2)])
                THEN SubSeq(cur2, 1, Len(cur2) - 1) ELSE cur2
    IN  wrap_chunks(c3,
                    IF cur3 # <<>> THEN Append(lines, indent \o Flatten(cur3)) ELSE lines,
                    textwidth, initial_indent, subsequent_indent)

wrap(text, width, initial_indent, subsequent_indent) ==
    wrap_chunks(Runs(text), <<>>, width, initial_indent, subsequent_indent)

(***************************************************************************)
(* textwrap.dedent: whitespace-only lines become empty, then the longest   *)
(* common leading whitespace of the other lines is removed from them.      *)
(***************************************************************************)
\* s.split("\n")
SplitNl(s) ==
    LET nl == SortedSeq({i \in 1..Len(s) : s[i] = "\n"})
    IN  [k \in 1..(Len(nl) + 1) |->
            SubSeq(s, IF k = 1 THEN 1 ELSE nl[k - 1] + 1,
                      IF k <= Len(nl) THEN nl[k] - 1 ELSE Len(s))]

\* s.splitlines(): the lines of s; a final newline ends the last line
splitlines(s) ==
    LET parts == SplitNl(s)
    IN  IF parts[Len(parts)] = <<>> THEN SubSeq(parts, 1, Len(parts) - 1) ELSE parts

LeadingWs(line) == SubSeq(line, 1, Len(line) - Len(lstrip(line)))

RECURSIVE CommonPrefix(_, _)
CommonPrefix(a, b) ==
    IF a # <<>> /\ b # <<>> /\ Head(a) = Head(b)
    THEN <<Head(a)>> \o CommonPrefix(Tail(a), Tail(b))
    ELSE <<>>

RECURSIVE Margin(_)
Margin(indents) ==
    IF Len(indents) = 1 THEN indents[1]
    ELSE CommonPrefix(indents[1], Margin(Tail(indents)))

dedent(text) ==
    LET raw == SplitNl(text)
        lines == [k \in 1..Len(raw) |-> IF IsBlank(raw[k]) THEN <<>> ELSE raw[k]]
        indents == [k \in 1..Len(SelectSeq(lines, LAMBDA l : l # <<>>)) |->
                       LeadingWs(SelectSeq(lines, LAMBDA l : l # <<>>)[k])]
        margin == IF indents = <<>> THEN <<>> ELSE Margin(indents)
    IN  join(<<"\n">>,
             [k \in 1..Len(lines) |->
                 IF lines[k] = <<>> THEN <<>>
                 ELSE SubSeq(lines[k], Len(margin) + 1, Len(lines[k]))])

RECURSIVE DropLeadingBlank(_)
DropLeadingBlank(lines) ==
    IF lines # <<>> /\ IsBlank(Head(lines)) THEN DropLeadingBlank(Tail(lines)) ELSE lines

RECURSIVE DropTrailingBlank(_)
DropTrailingBlank(lines) ==
    IF lines # <<>> /\ IsBlank(lines[Len(lines)])
    THEN DropTrailingBlank(SubSeq(lines, 1, Len(lines) - 1)) ELSE lines

(***************************************************************************)
(* The renderer.  render returns [ok, s]: the string, or ok = FALSE when   *)
(* the call raised.                                                        *)
(***************************************************************************)
Ok(str) == [ok |-> TRUE, s |-> str]
Raised == [ok |-> FALSE, s |-> <<>>]

\* Heading.render on the heading's level and the joined text of its contents
HeadingRender(hlevel, text) ==
    LET body == wrap(text, TEXT_WIDTH - 2, <<>>, <<>>)
        lines == [k \in 1..Len(body) |-> body[k] \o <<" ", "~">>]
    IN  join(<<"\n">>, <<Rep(IF hlevel = 1 THEN "=" ELSE "-", 79)>> \o lines)

\* a faulty variant: wraps to the full width and indents the wrapped lines afterwards
ParagraphRenderIndentAfter(text, lvl) ==
    LET indent == Rep(" ", lvl * SHIFT_WIDTH)
        lines == wrap(text, TEXT_WIDTH, <<>>, <<>>)
    IN  join(<<"\n">>, [k \in 1..Len(lines) |-> indent \o lines[k]])

\* Paragraph.render on the joined text of its contents
ParagraphRender(text, lvl) ==
    LET indent == Rep(" ", lvl * SHIFT_WIDTH)
    IN  join(<<"\n">>, wrap(text, TEXT_WIDTH, indent, indent))

\* PreformattedText.render
PreformattedRender(text, lvl) ==
    LET indent == Rep(" ", lvl + 4)
        lines == DropTrailingBlank(DropLeadingBlank(splitlines(dedent(text))))
    IN  join(<<"\n">>, <<<<">">>>> \o [k \in 1..Len(lines) |-> indent \o lines[k]])

\* Reference.render
ReferenceRender(r) == <<"[">> \o ToDec(r.number) \o <<"]", " ">> \o r.target

\* HyperLink.render: self.reference raises AttributeError while it is unset
HyperLinkRender(node) ==
    IF node.reference = <<>> THEN Raised
    ELSE Ok(node.text \o <<" ", "[">> \o ToDec(node.reference[1].number) \o <<"]">>)

\* the bullet of the item after n rendered items, and the level of that item
Bullet(ordered, n) == IF ordered THEN ToDec(n + 1) \o <<".", " ">> ELSE <<"-", " ">>
ItemLevel(lvl, bullet) == lvl + (Len(bullet) \div SHIFT_WIDTH)

\* the separator join_blocks puts before a surviving text that is not the first
BlockSeparator(type) == IF type = "PreformattedText" THEN <<"\n">> ELSE <<"\n", "\n">>

\* a faulty variant: keeps whitespace-only texts
SurvivesNonEmpty(text) == text # <<>>

\* the test join_blocks applies to a rendered text
Survives(text) == text # <<>> /\ ~isspace(text)

RECURSIVE render(_, _, _)
RECURSIVE join_blocks(_, _, _, _)
RECURSIVE ListLoop(_, _, _, _, _)

\* join_inline
join_inline(t, nodes, lvl) ==
    LET rs == [k \in 1..Len(nodes) |-> render(t, nodes[k], lvl)]
    IN  IF \A k \in 1..Len(nodes) : rs[k].ok
        THEN Ok(compact(Flatten([k \in 1..Len(nodes) |-> rs[k].s])))
        ELSE Raised

\* join_blocks: the loop over the nodes left, output being the text so far
join_blocks(t, nodes, lvl, out) ==
    IF nodes = <<>> THEN Ok(out)
    ELSE LET r == render(t, Head(nodes), lvl) IN
         IF ~r.ok THEN Raised
         ELSE join_blocks(t, Tail(nodes), lvl,
                IF Survives(r.s)
                THEN IF out = <<>> THEN r.s
                     ELSE out \o BlockSeparator(t[Head(nodes)].type) \o r.s
                ELSE out)

\* join_smart
join_smart(t, nodes, lvl) ==
    IF is_block_level(t, nodes) THEN join_blocks(t, nodes, lvl, <<>>)
    ELSE join_inline(t, nodes, lvl)

\* List.render: the loop over self.contents; st = [items, delimiter]
ListLoop(t, i, nodes, lvl, st) ==
    IF nodes = <<>> THEN Ok(join(st.delimiter, st.items))
    ELSE IF t[Head(nodes)].type # "ListItem" THEN ListLoop(t, i, Tail(nodes), lvl, st)
    ELSE LET indent == Rep(" ", lvl * SHIFT_WIDTH)
             bullet == Bullet(t[i].ordered, Len(st.items))
             r == render(t, Head(nodes), ItemLevel(lvl, bullet))
         IN  IF ~r.ok THEN Raised
             ELSE ListLoop(t, i, Tail(nodes), lvl,
                    [items |-> Append(st.items, indent \o bullet \o lstrip(r.s)),
                     delimiter |-> IF Contains(r.s, <<"\n">>) THEN <<"\n", "\n">>
                                   ELSE st.delimiter])

render(t, i, lvl) ==
    LET node == t[i]
        type == node.type
    IN  CASE type = "BlockLevelSequence" -> join_blocks(t, node.contents, lvl, <<>>)
          [] type = "Heading" ->
                LET r == join_inline(t, node.contents, lvl)
                IN  IF r.ok THEN Ok(HeadingRender(node.level, r.s)) ELSE Raised
          [] type = "Paragraph" ->
                LET r == join_inline(t, node.contents, lvl)
                IN  IF r.ok THEN Ok(ParagraphRender(r.s, lvl)) ELSE Raised
          [] type = "PreformattedText" -> Ok(PreformattedRender(node.text, lvl))
          [] type = "List" ->
                ListLoop(t, i, node.contents, lvl,
                         [items |-> <<>>, delimiter |-> <<"\n">>])
          [] type = "ListItem" -> join_smart(t, node.contents, lvl)
          [] type = "Table" -> Ok(<<>>)
          [] type = "InlineSequence" -> join_inline(t, node.contents, lvl)
          [] type = "HyperLink" -> HyperLinkRender(node)
          [] type = "Text" -> Ok(node.text)

\* list_references
list_references(refs) ==
    LET lines == [k \in 1..Len(refs) |-> ReferenceRender(refs[k])]
        title == compact(<<"R", "e", "f", "e", "r", "e", "n", "c", "e", "s">>)
    IN  IF lines # <<>>
        THEN <<"\n", "\n">> \o HeadingRender(1, title) \o <<"\n", "\n">>
             \o join(<<"\n">>, lines) \o <<"\n", "\n">>
        ELSE <<"\n", "\n">>

Trailer == <<"v", "i", "m", ":", " ", "f", "t", "=", "h", "e", "l", "p">>

(***************************************************************************)
(* The documents the specifications draw their inputs from.                *)
(***************************************************************************)
ABS1 == <<"s", ":", "/", "/", "a">>
ABS1ENC == <<"s", "%", "3", "A", "/", "/", "a">>
ABS2 == <<"s", ":", "/", "/", "b">>
REL == <<"a">>

\* hyperlinks of every target kind, one without href, and a heading to nest them
LinkLabels ==
    {HtmlNode("a", <<"x">>, <<ABS1>>),
     HtmlNode("a", <<"x">>, <<ABS1ENC>>),
     HtmlNode("a", <<"y">>, <<ABS2>>),
     HtmlNode("a", ABS1, <<ABS1>>),
     HtmlNode("a", <<"x">>, <<REL>>),
     HtmlNode("a", <<"x">>, <<>>),
     HtmlNode("h2", <<>>, <<>>)}

HeadingLabels ==
    {HtmlNode("h1", <<>>, <<>>), HtmlNode("h3", <<>>, <<>>),
     HtmlNode("h5", <<>>, <<>>), HtmlNode("div", <<>>, <<>>)}

DocsUpTo(rootname, n, Labels) == UNION {Docs(rootname, k, Labels) : k \in 1..n}

LinkDocs == DocsUpTo("div", MaxNodes, LinkLabels)
HeadingDocs == DocsUpTo("div", MaxNodes, HeadingLabels)

\* texts of 0..MaxWords words with whitespace to compact: long words for the
\* shallow levels, short words for every level up to MaxLevel
LongLens == {1, 39, 78, 80}
ShortLens == {1, 4}
ShallowLevels == {0, 1, 2}
Words(Lens, n) == UNION {[1..k -> Lens] : k \in 0..n}
TextOf(lens) ==
    IF lens = <<>> THEN <<" ">>
    ELSE <<" ">> \o join(<<" ", "\n">>, [k \in 1..Len(lens) |-> Rep("x", lens[k])])

\* a paragraph or heading element holding one text node
TextDoc(rootname, text) ==
    (1 :> [name |-> rootname, text |-> <<>>, href |-> <<>>, contents |-> <<2>>])
    @@ (2 :> [name |-> "#text", text |-> text, href |-> <<>>, contents |-> <<>>])

LongTexts == {TextOf(w) : w \in Words(LongLens, MaxWords)}
ShortTexts == {TextOf(w) : w \in Words(ShortLens, MaxWords)}

\* a list of n items; item k is <li><p>text</p></li> or <li>text</li>
ItemKinds == {"p", "inline"} \X {<<1>>, <<39, 78>>}
ListDoc(rootname, items) ==
    LET n == Len(items)
        li(k) == 3 * k - 1
        node(name, text, contents) ==
            [name |-> name, text |-> text, href |-> <<>>, contents |-> contents]
    IN  (1 :> node(rootname, <<>>, [k \in 1..n |-> li(k)]))
        @@ [i \in UNION {IF items[k][1] = "p" THEN {li(k), li(k) + 1, li(k) + 2}
                         ELSE {li(k), li(k) + 2} : k \in 1..n} |->
              LET k == (i + 1) \div 3 IN
              IF i = li(k)
              THEN node("li", <<>>, IF items[k][1] = "p" THEN <<i + 1>> ELSE <<i + 2>>)
              ELSE IF i = li(k) + 1 THEN node("p", <<>>, <<i + 1>>)
              ELSE node("#text", TextOf(items[k][2]), <<>>)]

ListDocs ==
    {ListDoc(n, items) : n \in {"ul", "ol"},
                         items \in UNION {[1..k -> ItemKinds] : k \in 1..MaxItems}}

\* the children join_blocks is handed: texts, a table, a preformatted text,
\* an empty paragraph, an empty heading
BlockLabels ==
    {HtmlNode("#text", <<" ", "\n">>, <<>>),
     HtmlNode("#text", <<"x">>, <<>>),
     HtmlNode("table", <<>>, <<>>),
     HtmlNode("pre", <<"\n", " ", " ", "b", "\n", " ", "\n">>, <<>>),
     HtmlNode("p", <<>>, <<>>),
     HtmlNode("h1", <<>>, <<>>)}

BlockDocs ==
    UNION {{MkDoc("div", [j \in 2..(k + 1) |-> 1], lab) :
               lab \in [2..(k + 1) -> BlockLabels]} : k \in 1..MaxBlocks}

(***************************************************************************)
(* html2vimdoc from simplify_tree on: one action per statement.            *)
(***************************************************************************)
Start(doc, lvl) ==
    /\ html = doc
    /\ tree = <<>>
    /\ pc = "parsed"
    /\ references = <<>>
    /\ output = <<>>
    /\ error = ""
    /\ level = lvl
    /\ shifts = 0

\* simple_tree = simplify_tree(root)
Simplify ==
    /\ pc = "parsed"
    /\ LET r == simplify_tree(html) IN
       \/ /\ r.ok
          /\ tree' = r.nodes
          /\ pc' = "simplified"
          /\ error' = error
       \/ /\ ~r.ok
          /\ tree' = tree
          /\ pc' = "failed"
          /\ error' = "KeyError"
    /\ UNCHANGED <<html, references, output, level, shifts>>

\* shift_headings(simple_tree)
ShiftHeadings ==
    /\ pc = "simplified"
    /\ tree' = shift_headings(tree)
    /\ shifts' = shifts + 1
    /\ pc' = "shifted"
    /\ UNCHANGED <<html, references, output, error, level>>

\* references = find_references(simple_tree)
FindReferences ==
    /\ pc = "shifted"
    /\ LET st == find_references(tree) IN
       /\ tree' = st.tree
       /\ references' = st.by_reference
    /\ pc' = "collected"
    /\ UNCHANGED <<html, output, error, level, shifts>>

\* vimdoc = simple_tree.render(level=0); return vimdoc + ... + "vim: ft=help"
Render ==
    /\ pc = "collected"
    /\ LET r == render(tree, 1, level) IN
       \/ /\ r.ok
          /\ output' = r.s \o list_references(references) \o Trailer
          /\ pc' = "done"
          /\ error' = error
       \/ /\ ~r.ok
          /\ output' = output
          /\ pc' = "failed"
          /\ error' = "AttributeError"
    /\ UNCHANGED <<html, tree, references, level, shifts>>

Init == \E doc \in LinkDocs : Start(doc, 0)

Next == Simplify \/ ShiftHeadings \/ FindReferences \/ Render

Spec == Init /\ [][Next]_vars

(***************************************************************************)
(* shift_headings applied to a simplified tree, and applied again.         *)
(***************************************************************************)
Reshift ==
    /\ pc = "shifted"
    /\ shifts < MaxShifts
    /\ tree' = shift_headings(tree)
    /\ shifts' = shifts + 1
    /\ UNCHANGED <<html, pc, references, output, error, level>>

InitShift == \E doc \in HeadingDocs : Start(doc, 0)

NextShift == Simplify \/ ShiftHeadings \/ Reshift

SpecShift == InitShift /\ [][NextShift]_vars

(***************************************************************************)
(* render as a function of a simplified tree and a level.                  *)
(***************************************************************************)
RenderInputs ==
    ({TextDoc("p", t) : t \in LongTexts} \X ShallowLevels)
    \cup ({TextDoc("p", t) : t \in ShortTexts} \X (0..MaxLevel))
    \cup ({TextDoc(n, t) : n \in {"h1", "h2"}, t \in LongTexts \cup ShortTexts} \X {0, 1})
    \cup (ListDocs \X {0, 1})
    \cup (BlockDocs \X {0, 1})

InitRender ==
    \E in \in RenderInputs :
        /\ html = in[1]
        /\ tree = simplify_tree(in[1]).nodes
        /\ pc = "simplified"
        /\ references = <<>>
        /\ output = <<>>
        /\ error = ""
        /\ level = in[2]
        /\ shifts = 0

RenderNode ==
    /\ pc = "simplified"
    /\ LET r == render(tree, 1, level) IN
       /\ r.ok
       /\ output' = r.s
    /\ pc' = "rendered"
    /\ UNCHANGED <<html, tree, references, error, level, shifts>>

NextRender == RenderNode

SpecRender == InitRender /\ [][NextRender]_vars

(***************************************************************************)
(* Properties of find_references and of the hyperlink renderer (Spec).     *)
(***************************************************************************)
\* find_references has returned
Collected == pc \in {"collected", "done"} \/ (pc = "failed" /\ error = "AttributeError")

SchemeSeparator == <<":", "/", "/">>

\* the nodes of the document in reading order
RECURSIVE DocOrder(_, _)
DocOrder(h, i) ==
    <<i>> \o Flatten([k \in 1..Len(h[i].contents) |-> DocOrder(h, h[i].contents[k])])

HyperLinks == {i \in DOMAIN tree : tree[i].type = "HyperLink"}

\* a hyperlink with an absolute decoded target that is not its own text
Qualifies(n) ==
    /\ n.type = "HyperLink"
    /\ Contains(unquote(n.target), SchemeSeparator)
    /\ unquote(n.target) # n.text

\* the qualifying hyperlinks in reading order, and those among them that are
\* the first with their decoded target
QualifyingLinks == SelectSeq(DocOrder(html, 1), LAMBDA i : Qualifies(tree[i]))
FirstOccurrences ==
    LET q == QualifyingLinks
    IN  SortedSeq({k \in 1..Len(q) :
            \A j \in 1..(k - 1) : unquote(tree[q[j]].target) # unquote(tree[q[k]].target)})

\* C1: the list find_references returns is numbered 1..k in list order, holds
\* one entry per target, and its entries are in reading order of the first
\* qualifying hyperlink of each target.
C1_ReferenceNumbering ==
    Collected =>
        LET q == QualifyingLinks
            f == FirstOccurrences
        IN  /\ Len(references) = Len(f)
            /\ \A k \in 1..Len(references) :
                  /\ references[k].number = k
                  /\ references[k].target = unquote(tree[q[f[k]]].target)
            /\ \A j, k \in 1..Len(references) :
                  references[j].target = references[k].target => j = k

\* C1 witness: three qualifying hyperlinks, two of them with the same decoded
\* target, gave two entries.
C1_Witness ==
    /\ pc = "collected"
    /\ Len(QualifyingLinks) = 3
    /\ Len(references) = 2
    /\ \E i \in HyperLinks : tree[i].reference = <<references[2]>>

\* C2 as claimed: two qualifying hyperlinks with the same decoded target share
\* one entry and both have their reference set to it.
C2_BothLinksResolved ==
    Collected =>
        \A i, j \in HyperLinks :
            (/\ i # j
             /\ Qualifies(tree[i])
             /\ Qualifies(tree[j])
             /\ unquote(tree[i].target) = unquote(tree[j].target))
            => /\ Cardinality({k \in 1..Len(references) :
                      references[k].target = unquote(tree[i].target)}) = 1
               /\ tree[i].reference # <<>>
               /\ tree[j].reference # <<>>
               /\ tree[i].reference = tree[j].reference
               /\ references[tree[i].reference[1].number] = tree[i].reference[1]

\* C3 as claimed: a hyperlink whose target string equals its text, or whose
\* target string holds no "://", never has its reference set.
C3_ExcludedLinksUnreferenced ==
    Collected =>
        \A i \in HyperLinks :
            (tree[i].target = tree[i].text \/ ~Contains(tree[i].target, SchemeSeparator))
            => tree[i].reference = <<>>

\* C4 as claimed: a hyperlink renders as its text followed by " [N]" when its
\* reference is set and as its text alone when it is unset.
C4_HyperLinkRendering ==
    pc = "collected" =>
        \A i \in HyperLinks :
            render(tree, i, 0) =
                Ok(IF tree[i].reference # <<>>
                   THEN tree[i].text \o <<" ", "[">>
                        \o ToDec(tree[i].reference[1].number) \o <<"]">>
                   ELSE tree[i].text)

EndsWith(str, suffix) ==
    Len(str) >= Len(suffix) /\ SubSeq(str, Len(str) - Len(suffix) + 1, Len(str)) = suffix

\* C5 as claimed: the pipeline fails only when a hyperlink element lacks its
\* href attribute, and otherwise returns text ending with the trailer line.
C5_OnlyMalformedMarkupFails ==
    /\ pc = "failed" => \E i \in DOMAIN html : html[i].name = "a" /\ html[i].href = <<>>
    /\ pc = "done" => EndsWith(output, Trailer)

(***************************************************************************)
(* Properties of shift_headings (SpecShift).                               *)
(***************************************************************************)
\* the tree as simplify_tree built it, before any pass
Original == simplify_tree(html).nodes

Headings == {i \in DOMAIN tree : tree[i].type = "Heading"}

\* C6: after shift_headings every heading's level is its original level minus
\* (m - 1), m the smallest original level; so every level is at least 1, some
\* level is 1 and the differences between levels are kept.  Nothing else
\* changes, and a tree without headings is left as it was.
C6_HeadingsShifted ==
    (pc = "shifted" /\ shifts = 1) =>
        LET orig == Original
        IN  IF Headings = {} THEN tree = orig
            ELSE LET m == CHOOSE l \in {orig[i].level : i \in Headings} :
                              \A i \in Headings : l <= orig[i].level
                 IN  /\ \A i \in Headings :
                           /\ tree[i].level = orig[i].level - (m - 1)
                           /\ tree[i].level >= 1
                     /\ \E i \in Headings : tree[i].level = 1
                     /\ \A i, j \in Headings :
                           tree[i].level - tree[j].level = orig[i].level - orig[j].level
                     /\ \A i \in DOMAIN tree :
                           tree[i] = [orig[i] EXCEPT !.level = tree[i].level]

\* C6 witness: the pass moved headings of two different levels, none of which
\* was at level 1.
C6_Witness ==
    /\ pc = "shifted"
    /\ shifts = 1
    /\ \E i, j \in Headings :
          /\ Original[i].level = 5
          /\ Original[j].level = 3
          /\ tree[i].level = 3
          /\ tree[j].level = 1

\* C7: shift_headings is idempotent: a second pass leaves every heading level
\* (the whole tree) as the first pass left it.
C7_ShiftIdempotent == [][(pc = "shifted" /\ pc' = "shifted") => tree' = tree]_vars

\* C7 witness: a second pass has run on a tree whose first pass moved headings.
C7_Witness ==
    /\ pc = "shifted"
    /\ shifts = 2
    /\ \E i \in Headings : tree[i].level # Original[i].level

(***************************************************************************)
(* Properties of the renderer (SpecRender).                                *)
(***************************************************************************)
\* every line of str has at most w characters: every w + 1 consecutive
\* characters hold a newline
LinesFit(str, w) ==
    \A i \in 1..(Len(str) - w) : \E j \in i..(i + w) : str[j] = "\n"

\* the lines of a rendered heading after the rule line end with the suffix
\* and are at most TEXT_WIDTH - 2 characters without it
HeadingBodyFits(str) ==
    LET lines == SplitNl(str)
    IN  \A k \in 2..Len(lines) :
           /\ EndsWith(lines[k], <<" ", "~">>)
           /\ Len(lines[k]) - 2 <= TEXT_WIDTH - 2

WrapWidthHolds ==
    /\ LinesFit(output, TEXT_WIDTH)
    /\ tree[1].type = "Heading" => HeadingBodyFits(output)

\* C8 as claimed: at any level, every line of a rendered paragraph or heading
\* is at most TEXT_WIDTH characters long.
C8_WrapWidthAnyLevel ==
    (pc = "rendered" /\ tree[1].type \in {"Paragraph", "Heading"}) => WrapWidthHolds

\* C8 amended: every line of a rendered heading, and of a paragraph rendered at
\* a level whose indentation level * SHIFT_WIDTH is below TEXT_WIDTH, is at
\* most TEXT_WIDTH characters long (heading lines TEXT_WIDTH - 2 before " ~").
C8_WrapWidth ==
    (/\ pc = "rendered"
     /\ tree[1].type \in {"Paragraph", "Heading"}
     /\ tree[1].type = "Paragraph" => level * SHIFT_WIDTH < TEXT_WIDTH)
    => WrapWidthHolds

\* C8 witness: a paragraph rendered at the deepest level that leaves room for
\* text, wrapped onto several lines.
C8_Witness ==
    /\ pc = "rendered"
    /\ tree[1].type = "Paragraph"
    /\ (level + 1) * SHIFT_WIDTH > TEXT_WIDTH
    /\ level * SHIFT_WIDTH < TEXT_WIDTH
    /\ Contains(output, <<"\n">>)

\* the items of the rendered list
ListItems == SelectSeq(tree[1].contents, LAMBDA i : tree[i].type = "ListItem")

\* every item is rendered at level + ceil(len(bullet) / SHIFT_WIDTH), which
\* indents it to or past the end of its bullet
ItemLevelsRoundUp ==
    \A k \in 1..Len(ListItems) :
        LET bullet == Bullet(tree[1].ordered, k - 1)
        IN  /\ ItemLevel(level, bullet)
                 = level + ((Len(bullet) + SHIFT_WIDTH - 1) \div SHIFT_WIDTH)
            /\ ItemLevel(level, bullet) * SHIFT_WIDTH >= level * SHIFT_WIDTH + Len(bullet)

\* in the output of a list of one item holding a paragraph, every line after
\* the first starts at or past the column where the first line's text starts
ContinuationPastBullet ==
    (Len(ListItems) = 1 /\ is_block_level(tree, tree[ListItems[1]].contents)) =>
        LET lines == SplitNl(output)
        IN  \A k \in 2..Len(lines) :
               Len(LeadingWs(lines[k]))
                  >= level * SHIFT_WIDTH + Len(Bullet(tree[1].ordered, 0))

\* C9 as claimed: every item of a rendered list, ordered or not, is rendered
\* at level + ceil(len(bullet) / SHIFT_WIDTH), so that its continuation lines
\* are indented to or past the column where the first line's text starts.
C9_ItemsAlignPastBullet ==
    (pc = "rendered" /\ tree[1].type = "List") =>
        (ItemLevelsRoundUp /\ ContinuationPastBullet)

\* C10: join_blocks returns the rendered texts of the children whose text is
\* neither empty nor only whitespace, in order, each but the first preceded by
\* a blank line, or by a single newline when it is a PreformattedText; so the
\* output is empty iff no child survives, and starts and ends with a text.
C10_JoinBlocks ==
    (pc = "rendered" /\ tree[1].type = "BlockLevelSequence") =>
        LET kids == tree[1].contents
            texts == [k \in 1..Len(kids) |-> render(tree, kids[k], level).s]
            keep == SortedSeq({k \in 1..Len(kids) :
                        \E c \in 1..Len(texts[k]) : texts[k][c] \notin {" ", "\n", "\t"}})
            piece(m) ==
                (IF m = 1 THEN <<>>
                 ELSE IF tree[kids[keep[m]]].type = "PreformattedText" THEN <<"\n">>
                 ELSE <<"\n", "\n">>) \o texts[keep[m]]
        IN  /\ output = Flatten([m \in 1..Len(keep) |-> piece(m)])
            /\ output = <<>> <=> keep = <<>>
            /\ keep # <<>> =>
                  /\ SubSeq(output, 1, Len(texts[keep[1]])) = texts[keep[1]]
                  /\ EndsWith(output, texts[keep[Len(keep)]])

\* C10 witness: a child was dropped, and a PreformattedText survived after
\* another surviving child.
C10_Witness ==
    /\ pc = "rendered"
    /\ tree[1].type = "BlockLevelSequence"
    /\ LET kids == tree[1].contents
           kept(k) == Survives(render(tree, kids[k], level).s)
       IN  /\ \E k \in 1..Len(kids) : ~kept(k)
           /\ \E j, k \in 1..Len(kids) :
                 /\ j < k
                 /\ kept(j)
                 /\ kept(k)
                 /\ tree[kids[k]].type = "PreformattedText"

====
